---- MODULE Spec2Model ----
(***************************************************************************)
(* A model of the Voronoi class of src/src/voronoi_claude_web.ts and of   *)
(* the exported helpers around it, as the source executes.                *)
(*                                                                         *)
(* Object model.  The classes RBTree, Cell, Halfedge, Diagram are class   *)
(* fields holding plain constructor functions (lines 150, 459, 605, 452); *)
(* the tree and cell operations (rbInsertSuccessor, rbRemoveNode,         *)
(* getFirst, prepareHalfedges, getStartpoint, getEndpoint) are methods of *)
(* Voronoi itself (lines 157, 239, 432, 489, 637, 644).  An object built  *)
(* by `new this.RBTree()` therefore owns the single property `root` and   *)
(* inherits nothing else, and a call such as                              *)
(*     this.beachline.rbInsertSuccessor(lArc, newArc)        (line 958)   *)
(* looks the method up on that object, finds undefined, and raises a      *)
(* TypeError.  The same holds for cell.prepareHalfedges() (line 1395),    *)
(* halfedge.getEndpoint() (line 1414) and halfedge.getStartpoint()        *)
(* (lines 1415, 1636).  The model records which methods each kind of      *)
(* object has (RBTreeMethods, CellMethods, HalfedgeMethods) and raises    *)
(* where the source calls one that is absent.                             *)
(*                                                                         *)
(* Coordinates are integers in grid units; the sites are the integer      *)
(* points strictly inside bbox.  A nullable reference is a sequence:      *)
(* <<>> is null/undefined, <<r>> a reference to r.  A site is identified  *)
(* by its index in the list passed to compute.                            *)
(***************************************************************************)
EXTENDS Integers, Sequences, FiniteSets, TLC

VARIABLES
  toRecycle,             \* this.toRecycle: Null or <<diagram>>
  beachsectionJunkyard,  \* this.beachsectionJunkyard
  circleEventJunkyard,   \* this.circleEventJunkyard
  vertexJunkyard,        \* this.vertexJunkyard
  edgeJunkyard,          \* this.edgeJunkyard
  cellJunkyard,          \* this.cellJunkyard
  beachline,             \* this.beachline: Null (before the first reset) or <<[root]>>
  circleEvents,          \* this.circleEvents: Null or <<[root]>>
  firstCircleEvent,      \* this.firstCircleEvent
  vertices,              \* this.vertices (Null before the first reset)
  edges,                 \* this.edges
  cells,                 \* this.cells
  arraysOf,              \* the diagram that holds the very arrays this.vertices,
                         \* this.edges, this.cells refer to: Null or <<its id>>
  pts,                   \* the caller's point data for the next compute
  sites,                 \* the caller's site list last passed to compute
  diagrams,              \* every Diagram this instance has returned
  lastCall,              \* the last call made on the instance and how it ended
  lastCompute,           \* the last compute call: Null or <<its record>>
  prevCompute,           \* the compute call before it, when on the same points
  polygons,              \* the last result of getVoronoiPolygons
  nCalls,                \* number of calls made so far
  points,                \* the polygon a caller builds for filterSimilarPoints
  threshold,             \* the threshold of the filterSimilarPoints call
  filterResult,          \* Null, or <<how the filterSimilarPoints call ended>>
  writeFrameId,          \* part_000: the id the next received frame gets
  readFrameId,           \* part_000: the read index of the frame feed
  dataMap,               \* part_000: the buffered frames, frame id -> data
  lastData,              \* part_000: what the last read found (Null: undefined)
  liveData,              \* the frame setDataLive last made live (Null: none yet)
  delivered,             \* the frame ids getVoronoiData has made live, in order
  lastRead               \* the last getVoronoiData call: Null or <<its record>>

instanceVars == <<toRecycle, beachsectionJunkyard, circleEventJunkyard,
                  vertexJunkyard, edgeJunkyard, cellJunkyard, beachline,
                  circleEvents, firstCircleEvent, vertices, edges, cells,
                  arraysOf>>
junkyards == <<beachsectionJunkyard, circleEventJunkyard, vertexJunkyard,
               edgeJunkyard, cellJunkyard>>
voronoiVars == <<instanceVars, pts, sites, diagrams, lastCall, lastCompute,
                 prevCompute, polygons, nCalls>>
filterVars == <<points, threshold, filterResult>>
feedVars == <<writeFrameId, readFrameId, dataMap, lastData, liveData, delivered,
              lastRead>>
vars == <<voronoiVars, filterVars, feedVars>>

-----------------------------------------------------------------------------
(* Bounds of the model. *)
MaxSites == 2
MaxCoord == 2
MaxCalls == 3
MaxPoints == 3
MaxXY == 2
MaxFrames == 4
MaxReads == 4

(* null / undefined *)
Null == <<>>
(* Site.voronoiId is optional: a site compute has not numbered has none. *)
NoId == -1
(* part_000: the value readFrameId starts with and is tested against. *)
NoFrame == -1
(* part_000 line 140 *)
lookbackSize == 2

(* The clip rectangle; the sites lie strictly inside it. *)
bbox == [xl |-> 0, xr |-> MaxCoord + 1, yt |-> 0, yb |-> MaxCoord + 1]
Coord == 1..MaxCoord
Point == [x : Coord, y : Coord]
(* The site objects a caller builds from its point data (drawLoop.ts     *)
(* lines 45-48): fresh objects, no voronoiId yet.                          *)
tdSites(p) == [i \in 1..Len(p) |-> [x |-> p[i].x, y |-> p[i].y, voronoiId |-> NoId]]

-----------------------------------------------------------------------------
(* The methods each kind of object has.  The constructors only assign data *)
(* properties, and nothing is ever put on their prototypes.                *)
RBTreeMethods == {}
CellMethods == {}
HalfedgeMethods == {}
(* Calling obj.name(...) raises a TypeError when obj has no such method. *)
CallRaises(methods, name) == name \notin methods

-----------------------------------------------------------------------------
(* The instance as a record, so that the methods compose as operators. *)
This == [toRecycle |-> toRecycle,
         beachsectionJunkyard |-> beachsectionJunkyard,
         circleEventJunkyard |-> circleEventJunkyard,
         vertexJunkyard |-> vertexJunkyard,
         edgeJunkyard |-> edgeJunkyard,
         cellJunkyard |-> cellJunkyard,
         beachline |-> beachline,
         circleEvents |-> circleEvents,
         firstCircleEvent |-> firstCircleEvent,
         vertices |-> vertices,
         edges |-> edges,
         cells |-> cells,
         arraysOf |-> arraysOf]

(* The state after construction. *)
constructor == [toRecycle |-> Null,
                beachsectionJunkyard |-> <<>>,
                circleEventJunkyard |-> <<>>,
                vertexJunkyard |-> <<>>,
                edgeJunkyard |-> <<>>,
                cellJunkyard |-> <<>>,
                beachline |-> Null,
                circleEvents |-> Null,
                firstCircleEvent |-> Null,
                vertices |-> Null,
                edges |-> Null,
                cells |-> Null,
                arraysOf |-> Null]

(* pop() of an array: the array without its last element. *)
Pop(a) == IF a = <<>> THEN a ELSE SubSeq(a, 1, Len(a) - 1)
Last(a) == a[Len(a)]

(* reset(): a non-empty beachline is walked with this.beachline.getFirst,  *)
(* which the RBTree object does not have.                                  *)
resetRaises(t) ==
  /\ t.beachline # Null
  /\ t.beachline[1].root # Null
  /\ CallRaises(RBTreeMethods, "getFirst")

(* A reset that empties the three arrays in place (length = 0) once it has  *)
(* run before, instead of replacing them.                                   *)
resetInPlace(t) ==
  [t EXCEPT !.beachline = <<[root |-> Null]>>,
            !.circleEvents = <<[root |-> Null]>>,
            !.firstCircleEvent = Null,
            !.vertices = <<>>,
            !.edges = <<>>,
            !.cells = <<>>,
            !.arraysOf = IF t.beachline = Null THEN Null ELSE t.arraysOf]

(* The three arrays are replaced by new array literals (lines 119-121),    *)
(* which no diagram holds.                                                  *)
reset(t) ==
  [t EXCEPT !.beachline = <<[root |-> Null]>>,
            !.circleEvents = <<[root |-> Null]>>,
            !.firstCircleEvent = Null,
            !.vertices = <<>>,
            !.edges = <<>>,
            !.cells = <<>>,
            !.arraysOf = Null]

-----------------------------------------------------------------------------
(* compute: the hand-over of a recycled diagram's arrays to the junkyards. *)
recycleHandOver(t) ==
  IF t.toRecycle # Null
  THEN [t EXCEPT !.vertexJunkyard = t.vertexJunkyard \o t.toRecycle[1].vertices,
                 !.edgeJunkyard = t.edgeJunkyard \o t.toRecycle[1].edges,
                 !.cellJunkyard = t.cellJunkyard \o t.toRecycle[1].cells,
                 !.toRecycle = Null]
  ELSE t

(* The comparator handed to siteEvents.sort: descending y, then descending x. *)
siteEventsCompare(a, b) == IF b.y - a.y # 0 THEN b.y - a.y ELSE b.x - a.x

(* A sort that puts a site in front of the earlier sites it ties with. *)
RECURSIVE sortInsertTiesFirst(_, _, _)
sortInsertTiesFirst(sorted, i, S) ==
  IF sorted = <<>> THEN <<i>>
  ELSE IF siteEventsCompare(S[Head(sorted)], S[i]) < 0
       THEN <<Head(sorted)>> \o sortInsertTiesFirst(Tail(sorted), i, S)
       ELSE <<i>> \o sorted

(* Array.prototype.sort is stable: site i, the later one in the input, goes *)
(* behind every site that does not compare greater than it.                 *)
RECURSIVE sortInsert(_, _, _)
sortInsert(sorted, i, S) ==
  IF sorted = <<>> THEN <<i>>
  ELSE IF siteEventsCompare(S[Head(sorted)], S[i]) <= 0
       THEN <<Head(sorted)>> \o sortInsert(Tail(sorted), i, S)
       ELSE <<i>> \o sorted

RECURSIVE sortUpTo(_, _)
sortUpTo(S, n) == IF n = 0 THEN <<>> ELSE sortInsert(sortUpTo(S, n - 1), n, S)

(* siteEvents = sites.slice(0), sorted: the indices of the sites in sweep   *)
(* order, the next site to handle last.                                     *)
siteEventsSort(S) == sortUpTo(S, Len(S))

(* siteEvents.pop(): the popped site (Null when the array is empty). *)
popSite(ev) == IF ev = <<>> THEN Null ELSE <<Last(ev)>>

(* createCell / initCell: a junkyard cell is re-initialised, else a new one. *)
createCell(t, site) ==
  [this |-> [t EXCEPT !.cellJunkyard = Pop(t.cellJunkyard)],
   cell |-> [site |-> site, halfedges |-> <<>>, closeMe |-> FALSE]]

(* createBeachsection: a junkyard beachsection is reused, else a new one. *)
createBeachsection(t, site) ==
  [this |-> [t EXCEPT !.beachsectionJunkyard = Pop(t.beachsectionJunkyard)],
   arc |-> [site |-> site]]

(* addBeachsection: the descent from beachline.root (skipped while the root *)
(* is null), createBeachsection, then this.beachline.rbInsertSuccessor,     *)
(* which the RBTree object does not have: the call raises before the tree,  *)
(* an edge or a circle event is touched.                                    *)
addBeachsection(t, site) ==
  LET b == createBeachsection(t, site)
  IN [this |-> b.this,
      raised |-> CallRaises(RBTreeMethods, "rbInsertSuccessor")]

(* createVertex: a junkyard vertex is overwritten, else a new one; pushed   *)
(* on this.vertices.                                                        *)
createVertex(t, x, y) ==
  [t EXCEPT !.vertexJunkyard = Pop(t.vertexJunkyard),
            !.vertices = Append(t.vertices, [x |-> x, y |-> y])]

(* removeBeachsection: createVertex, then detachBeachsection, whose         *)
(* detachCircleEvent moves firstCircleEvent on and calls                    *)
(* this.circleEvents.rbRemoveNode, which the RBTree object does not have.   *)
removeBeachsection(t, circle) ==
  LET t1 == createVertex(t, circle.x, circle.ycenter)
      t2 == IF circle.rbPrevious = Null
            THEN [t1 EXCEPT !.firstCircleEvent = circle.rbNext]
            ELSE t1
  IN [this |-> t2,
      raised |-> CallRaises(RBTreeMethods, "rbRemoveNode")]

(* The main loop of compute.  st.site is the pending site event, st.xsite   *)
(* the coordinates of the last site given a cell (Null before the first).   *)
RECURSIVE mainLoop(_)
mainLoop(st) ==
  LET circle == st.this.firstCircleEvent
      site == st.sites[st.site[1]]
      siteFirst ==
        /\ st.site # Null
        /\ \/ circle = Null
           \/ site.y < circle[1].y
           \/ (site.y = circle[1].y /\ site.x < circle[1].x)
      next == [st EXCEPT !.siteEvents = Pop(st.siteEvents),
                         !.site = popSite(st.siteEvents)]
  IN IF siteFirst
     THEN IF st.xsite = Null \/ site.x # st.xsite[1].x \/ site.y # st.xsite[1].y
          THEN LET c == createCell(st.this, st.site[1])
                   t1 == [c.this EXCEPT !.cells = Append(c.this.cells, c.cell)]
                   S1 == [st.sites EXCEPT ![st.site[1]].voronoiId = st.siteid]
                   a == addBeachsection(t1, st.site[1])
               IN IF a.raised
                  THEN [st EXCEPT !.this = a.this, !.sites = S1, !.raised = TRUE]
                  ELSE mainLoop([next EXCEPT !.this = a.this,
                                             !.sites = S1,
                                             !.siteid = st.siteid + 1,
                                             !.xsite = <<[x |-> site.x, y |-> site.y]>>])
          ELSE mainLoop(next)
     ELSE IF circle # Null
          THEN LET r == removeBeachsection(st.this, circle[1])
               IN IF r.raised
                  THEN [st EXCEPT !.this = r.this, !.raised = TRUE]
                  ELSE mainLoop([st EXCEPT !.this = r.this])
          ELSE st

(* clipEdges: one pass over this.edges, last to first.  Every edge is made  *)
(* behind the raising calls of addBeachsection and removeBeachsection, so   *)
(* the array is empty whenever the pass starts (NoSweepObjects below) and   *)
(* its body runs zero times.                                                *)
clipEdges(t) == t

(* closeCells: one pass over this.cells, last to first; its first statement *)
(* per cell is cell.prepareHalfedges(), which a Cell object does not have.  *)
closeCellsRaises(t) ==
  /\ Len(t.cells) > 0
  /\ CallRaises(CellMethods, "prepareHalfedges")

(* compute(sites, bbox), with the id the returned Diagram object gets.      *)
(* The result says whether the call raised, the instance and the sites as   *)
(* the call leaves them, the diagram returned, the diagram whose arrays the *)
(* call handed over to the junkyards, and how many site events (the one in  *)
(* `site` and those still in siteEvents) the main loop had not consumed     *)
(* when control left it.  The new Diagram takes the                         *)
(* instance's three arrays themselves (lines 1617-1619) before the closing  *)
(* reset.                                                                   *)
compute(t0, S0, id) ==
  IF resetRaises(t0)
  THEN [this |-> t0, sites |-> S0, raised |-> TRUE, diagram |-> Null,
        recycled |-> Null, pending |-> Len(S0)]
  ELSE
  LET t1 == recycleHandOver(reset(t0))
      ev == siteEventsSort(S0)
      loop == mainLoop([this |-> t1, sites |-> S0, siteEvents |-> Pop(ev),
                        site |-> popSite(ev), siteid |-> 0, xsite |-> Null,
                        raised |-> FALSE])
      t2 == clipEdges(loop.this)
      d == [id |-> id, cells |-> t2.cells, edges |-> t2.edges,
            vertices |-> t2.vertices]
      t3 == [t2 EXCEPT !.arraysOf = <<id>>]
      pending == Len(loop.siteEvents) + Len(loop.site)
  IN IF loop.raised
     THEN [this |-> loop.this, sites |-> loop.sites, raised |-> TRUE, diagram |-> Null,
           recycled |-> t0.toRecycle, pending |-> pending]
     ELSE IF closeCellsRaises(t2)
     THEN [this |-> t2, sites |-> loop.sites, raised |-> TRUE, diagram |-> Null,
           recycled |-> t0.toRecycle, pending |-> pending]
     ELSE [this |-> reset(t3), sites |-> loop.sites, raised |-> FALSE,
           diagram |-> <<d>>, recycled |-> t0.toRecycle, pending |-> pending]

-----------------------------------------------------------------------------
(* The values a caller can hand to recycle.  A Diagram is recognised by     *)
(* `instanceof this.Diagram`, and Diagram is a function of the instance, so *)
(* a diagram another Voronoi instance returned is not one.                  *)
NonDiagramKinds == {"null", "undefined", "zero", "object", "foreignDiagram"}
NonDiagrams == [kind : NonDiagramKinds, id : {0}]
OwnDiagram(d) == [kind |-> "diagram", id |-> d.id]
RecycleArgs == NonDiagrams \cup {OwnDiagram(d) : d \in diagrams}
DiagramOf(v) == CHOOSE d \in diagrams : d.id = v.id

(* `if (diagram)`: JavaScript truthiness. *)
Truthy(v) == v.kind \notin {"null", "undefined", "zero"}
(* `diagram instanceof this.Diagram` *)
instanceofDiagram(v) == v.kind = "diagram"

(* A recycle that drops the pending mark when it rejects its argument. *)
recycleDropsMark(t, v) ==
  IF Truthy(v) /\ instanceofDiagram(v)
  THEN [t EXCEPT !.toRecycle = <<DiagramOf(v)>>]
  ELSE IF Truthy(v) THEN [t EXCEPT !.toRecycle = Null] ELSE t

(* recycle(diagram) *)
recycleRaises(v) == Truthy(v) /\ ~instanceofDiagram(v)
recycle(t, v) ==
  IF Truthy(v) /\ instanceofDiagram(v)
  THEN [t EXCEPT !.toRecycle = <<DiagramOf(v)>>]
  ELSE t

-----------------------------------------------------------------------------
(* getStartpoint / getEndpoint of a halfedge [site, edge, angle]. *)
getStartpoint(halfedge) ==
  IF halfedge.edge.lSite = halfedge.site THEN halfedge.edge.va ELSE halfedge.edge.vb
getEndpoint(halfedge) ==
  IF halfedge.edge.lSite = halfedge.site THEN halfedge.edge.vb ELSE halfedge.edge.va

(* getVoronoiPolygons(diagram, origSiteList): the cell of each site is      *)
(* diagram.cells[site.voronoiId] (undefined when the site has no id or the  *)
(* diagram no such cell), and each halfedge is asked halfedge.getStartpoint *)
(* (), which a Halfedge object does not have.                               *)
cellOf(d, site) ==
  IF site.voronoiId # NoId /\ site.voronoiId < Len(d.cells)
  THEN <<d.cells[site.voronoiId + 1]>>
  ELSE Null
getVoronoiPolygonsRaises(d, S) ==
  \E i \in 1..Len(S) :
     \/ cellOf(d, S[i]) = Null
     \/ /\ Len(cellOf(d, S[i])[1].halfedges) > 0
        /\ CallRaises(HalfedgeMethods, "getStartpoint")
getVoronoiPolygons(d, S) ==
  [i \in 1..Len(S) |->
     [k \in 1..Len(cellOf(d, S[i])[1].halfedges) |->
        getStartpoint(cellOf(d, S[i])[1].halfedges[k])]]

-----------------------------------------------------------------------------
NoCall == [op |-> "none", raised |-> FALSE, arg |-> [kind |-> "none", id |-> 0]]

Init ==
  /\ toRecycle = constructor.toRecycle
  /\ beachsectionJunkyard = constructor.beachsectionJunkyard
  /\ circleEventJunkyard = constructor.circleEventJunkyard
  /\ vertexJunkyard = constructor.vertexJunkyard
  /\ edgeJunkyard = constructor.edgeJunkyard
  /\ cellJunkyard = constructor.cellJunkyard
  /\ beachline = constructor.beachline
  /\ circleEvents = constructor.circleEvents
  /\ firstCircleEvent = constructor.firstCircleEvent
  /\ vertices = constructor.vertices
  /\ edges = constructor.edges
  /\ cells = constructor.cells
  /\ arraysOf = constructor.arraysOf
  /\ pts = <<>>
  /\ sites = <<>>
  /\ diagrams = {}
  /\ lastCall = NoCall
  /\ lastCompute = Null
  /\ prevCompute = Null
  /\ polygons = Null
  /\ nCalls = 0
  /\ points = <<>>
  /\ threshold = 0
  /\ filterResult = Null
  /\ writeFrameId = 0
  /\ readFrameId = NoFrame
  /\ dataMap = [id \in {} |-> Null]
  /\ lastData = Null
  /\ liveData = Null
  /\ delivered = <<>>
  /\ lastRead = Null

(* The instance's fields after a method has run. *)
SetThis(t) ==
  /\ toRecycle' = t.toRecycle
  /\ beachsectionJunkyard' = t.beachsectionJunkyard
  /\ circleEventJunkyard' = t.circleEventJunkyard
  /\ vertexJunkyard' = t.vertexJunkyard
  /\ edgeJunkyard' = t.edgeJunkyard
  /\ cellJunkyard' = t.cellJunkyard
  /\ beachline' = t.beachline
  /\ circleEvents' = t.circleEvents
  /\ firstCircleEvent' = t.firstCircleEvent
  /\ vertices' = t.vertices
  /\ edges' = t.edges
  /\ cells' = t.cells
  /\ arraysOf' = t.arraysOf

(* The record kept of a compute call: the points it was given, the sites as *)
(* it left them, whether it raised, the diagram it returned, the diagram it *)
(* handed over to the junkyards and the site events its main loop left.     *)
ComputeRecord(p, r) ==
  [pts |-> p, sites |-> r.sites, raised |-> r.raised, diagram |-> r.diagram,
   recycled |-> r.recycled, pending |-> r.pending]

(* The diagrams as the caller sees them once a method has run: a diagram    *)
(* whose arrays are the instance's own shows what the method wrote to them. *)
heldBy(D, t) ==
  {IF t.arraysOf = <<d.id>>
   THEN [d EXCEPT !.cells = t.cells, !.edges = t.edges, !.vertices = t.vertices]
   ELSE d : d \in D}

(* The caller starts a new list of points and drops what it kept of the     *)
(* previous one; the Voronoi instance is not touched.                       *)
NewFrame ==
  /\ lastCompute # Null
  /\ pts' = <<>>
  /\ sites' = <<>>
  /\ lastCall' = NoCall
  /\ lastCompute' = Null
  /\ prevCompute' = Null
  /\ polygons' = Null
  /\ UNCHANGED <<instanceVars, diagrams, nCalls, filterVars, feedVars>>

(* The caller adds a point to the list it has not computed yet. *)
AddPoint(p) ==
  /\ lastCompute = Null
  /\ Len(pts) < MaxSites
  /\ pts' = Append(pts, p)
  /\ UNCHANGED <<instanceVars, sites, diagrams, lastCall, lastCompute,
                 prevCompute, polygons, nCalls, filterVars, feedVars>>

(* The caller builds the sites of its points and computes their diagram;    *)
(* computing again without a new frame passes the same values in the same   *)
(* order.                                                                   *)
Compute ==
  /\ nCalls < MaxCalls
  /\ LET r == compute(This, tdSites(pts), nCalls + 1)
     IN /\ SetThis(r.this)
        /\ sites' = r.sites
        /\ diagrams' = heldBy(IF r.raised THEN diagrams
                               ELSE diagrams \cup {r.diagram[1]}, r.this)
        /\ lastCall' = [op |-> "compute", raised |-> r.raised,
                        arg |-> IF r.raised THEN [kind |-> "none", id |-> 0]
                                ELSE OwnDiagram(r.diagram[1])]
        /\ lastCompute' = <<ComputeRecord(pts, r)>>
  /\ prevCompute' = lastCompute
  /\ polygons' = Null
  /\ nCalls' = nCalls + 1
  /\ UNCHANGED <<pts, filterVars, feedVars>>

(* The caller hands a value to recycle. *)
Recycle(v) ==
  /\ nCalls < MaxCalls
  /\ SetThis(recycle(This, v))
  /\ lastCall' = [op |-> "recycle", raised |-> recycleRaises(v), arg |-> v]
  /\ nCalls' = nCalls + 1
  /\ UNCHANGED <<pts, sites, diagrams, lastCompute, prevCompute, polygons,
                 filterVars, feedVars>>

(* The caller asks for the polygons of the diagram compute just returned,   *)
(* in the order of the sites it passed (drawLoop.ts line 69).               *)
GetVoronoiPolygons ==
  /\ nCalls < MaxCalls
  /\ lastCall.op = "compute"
  /\ ~lastCall.raised
  /\ LET d == DiagramOf(lastCall.arg)
     IN /\ lastCall' = [op |-> "getVoronoiPolygons",
                        raised |-> getVoronoiPolygonsRaises(d, sites),
                        arg |-> lastCall.arg]
        /\ polygons' = IF getVoronoiPolygonsRaises(d, sites) THEN Null
                       ELSE <<getVoronoiPolygons(d, sites)>>
  /\ nCalls' = nCalls + 1
  /\ UNCHANGED <<instanceVars, pts, sites, diagrams, lastCompute, prevCompute,
                 filterVars, feedVars>>

Next ==
  \/ NewFrame
  \/ \E p \in Point : AddPoint(p)
  \/ Compute
  \/ \E v \in RecycleArgs : Recycle(v)
  \/ GetVoronoiPolygons

Spec == Init /\ [][Next]_vars

-----------------------------------------------------------------------------
(* Structural facts of the model. *)

(* No beachsection enters the beachline, and no circle event, vertex or     *)
(* edge is made: every statement that would make one lies behind a raising  *)
(* call.  This is what lets clipEdges run over an empty array.              *)
NoSweepObjects ==
  /\ beachline # Null => beachline[1].root = Null
  /\ circleEvents # Null => circleEvents[1].root = Null
  /\ firstCircleEvent = Null
  /\ vertices = <<>>
  /\ edges = <<>>
  /\ \A d \in diagrams : d.edges = <<>> /\ d.vertices = <<>>

-----------------------------------------------------------------------------
(* Vocabulary of the claims. *)

(* The last call was compute: sites and lastCompute are as it left them. *)
AfterCompute == lastCall.op = "compute"
(* The diagram the last compute call returned (when it returned). *)
returned == lastCompute[1].diagram[1]

SameCoords(S, i, j) == S[i].x = S[j].x /\ S[i].y = S[j].y
DistinctSites(S) == \A i, j \in 1..Len(S) : i # j => ~SameCoords(S, i, j)
CoordPairs(S) == {<<S[i].x, S[i].y>> : i \in 1..Len(S)}
(* (y, then x) ascending *)
Before(p, q) == p[2] < q[2] \/ (p[2] = q[2] /\ p[1] < q[1])
Rank(S, i) == Cardinality({q \in CoordPairs(S) : Before(q, <<S[i].x, S[i].y>>)})
Ids(S) == {S[i].voronoiId : i \in {k \in 1..Len(S) : S[k].voronoiId # NoId}}

(* The polygon of a cell: its halfedges' start points, in stored order. *)
cellPolygon(cell) ==
  [k \in 1..Len(cell.halfedges) |-> getStartpoint(cell.halfedges[k])]
(* The halfedges of a cell form a closed walk. *)
Closed(cell) ==
  \A k \in 1..Len(cell.halfedges) :
     getEndpoint(cell.halfedges[k]) =
       getStartpoint(cell.halfedges[(k % Len(cell.halfedges)) + 1])
Range(f) == {f[k] : k \in DOMAIN f}
Corners == {[x |-> bbox.xl, y |-> bbox.yt], [x |-> bbox.xr, y |-> bbox.yt],
            [x |-> bbox.xr, y |-> bbox.yb], [x |-> bbox.xl, y |-> bbox.yb]}
(* Consecutive points of a rectangle's boundary walk share a coordinate. *)
WalksRectangle(poly) ==
  \A k \in 1..Len(poly) :
     LET a == poly[k]
         b == poly[(k % Len(poly)) + 1]
     IN (a.x = b.x) # (a.y = b.y)
Dist2(v, site) == (v.x - site.x) * (v.x - site.x) + (v.y - site.y) * (v.y - site.y)

-----------------------------------------------------------------------------
(* C1: for every list of N >= 0 sites with pairwise distinct coordinates    *)
(* strictly inside the bbox, compute returns without raising a diagram with *)
(* exactly N cells, each with a non-empty halfedge list that forms a closed *)
(* polygon boundary.                                                        *)
C1_ComputeReturnsClosedCells ==
  (AfterCompute /\ DistinctSites(sites)) =>
     /\ ~lastCall.raised
     /\ Len(returned.cells) = Len(sites)
     /\ \A c \in 1..Len(returned.cells) :
           /\ returned.cells[c].halfedges # <<>>
           /\ Closed(returned.cells[c])

(* C2: after compute, the voronoiId of each non-skipped site is its rank    *)
(* among the distinct sites in ascending (y, x) order, so the ids are       *)
(* exactly 0..N-1, and cells[i].site is the site whose voronoiId is i.      *)
C2_IdsAreSweepRanks ==
  AfterCompute =>
     /\ Ids(sites) = 0..(Cardinality(CoordPairs(sites)) - 1)
     /\ \A i \in 1..Len(sites) :
           sites[i].voronoiId # NoId => sites[i].voronoiId = Rank(sites, i)
     /\ ~lastCall.raised =>
           \A c \in 1..Len(returned.cells) :
              sites[returned.cells[c].site].voronoiId = c - 1

(* C3: the number of cells of the diagram compute returns is the number of  *)
(* distinct coordinate pairs among the input sites.                         *)
C3_CellCountIsDistinctCount ==
  AfterCompute =>
     /\ ~lastCall.raised
     /\ Len(returned.cells) = Cardinality(CoordPairs(sites))

CellsOfSite(i) ==
  {c \in Range(cells) \cup (IF lastCall.raised THEN {} ELSE Range(returned.cells)) :
     c.site = i}

CellsAt(d, S, k) ==
  {c \in Range(d.cells) : SameCoords(S, c.site, k)}

(* C5: for every site list passed to compute, duplicates included,          *)
(* getVoronoiPolygons(diagram, sites) returns without raising exactly one   *)
(* polygon per input site, in input order, polygon k being the halfedge     *)
(* start points, in stored order, of the cell that belongs to sites[k].     *)
C5_OnePolygonPerSite ==
  /\ AfterCompute => ~lastCall.raised
  /\ lastCall.op = "getVoronoiPolygons" =>
        /\ ~lastCall.raised
        /\ Len(polygons[1]) = Len(sites)
        /\ \A k \in 1..Len(sites) :
              \E c \in CellsAt(returned, sites, k) :
                 polygons[1][k] = cellPolygon(c)

(* C6: compute on exactly one site inside the bbox returns without raising  *)
(* a diagram with exactly one cell, whose polygon is the four corners of    *)
(* the bbox in some rotation and winding.                                   *)
C6_SingleSiteIsBbox ==
  (AfterCompute /\ Len(sites) = 1) =>
     /\ ~lastCall.raised
     /\ Len(returned.cells) = 1
     /\ Len(cellPolygon(returned.cells[1])) = 4
     /\ Range(cellPolygon(returned.cells[1])) = Corners
     /\ WalksRectangle(cellPolygon(returned.cells[1]))

(* The rectangle of the bbox on site k's side of the vertical line through  *)
(* the middle of two sites with equal y: its four corners.                  *)
OnOwnSide(S, k, p) ==
  /\ p.y \in {bbox.yt, bbox.yb}
  /\ \/ 2 * p.x = S[1].x + S[2].x
     \/ p.x = (IF S[k].x < S[3 - k].x THEN bbox.xl ELSE bbox.xr)

(* C7: two sites with equal y and different x inside the bbox give exactly  *)
(* two cells separated by one edge on the vertical line x = (x1 + x2) / 2   *)
(* that spans the bbox from top to bottom, and each closed cell is the      *)
(* rectangle on its own site's side of that line.                           *)
C7_TwoSitesSplitVertically ==
  (AfterCompute /\ Len(sites) = 2 /\ sites[1].y = sites[2].y
                /\ sites[1].x # sites[2].x) =>
     /\ ~lastCall.raised
     /\ Len(returned.cells) = 2
     /\ LET inner == {e \in Range(returned.edges) : e.rSite # Null}
        IN /\ Cardinality(inner) = 1
           /\ \A e \in inner :
                 /\ 2 * e.va.x = sites[1].x + sites[2].x
                 /\ 2 * e.vb.x = sites[1].x + sites[2].x
                 /\ {e.va.y, e.vb.y} = {bbox.yt, bbox.yb}
     /\ \A c \in 1..2 :
           LET poly == cellPolygon(returned.cells[c])
           IN /\ Len(poly) = 4
              /\ Cardinality(Range(poly)) = 4
              /\ WalksRectangle(poly)
              /\ \A k \in 1..4 : OnOwnSide(sites, returned.cells[c].site, poly[k])

(* C8: in the diagram compute returns for its sites, every point inside the *)
(* polygon of cell i is closer to site i than to every other input site.    *)
(* A cell is convex and the nearer-site condition is linear, so the points  *)
(* inside are nearer exactly when no corner of the polygon is farther.      *)
C8_CellsAreNearestRegions ==
  (AfterCompute /\ Len(sites) >= 1) =>
     /\ ~lastCall.raised
     /\ \A c \in 1..Len(returned.cells) :
           \A k \in 1..Len(returned.cells[c].halfedges) :
              \A j \in 1..Len(sites) :
                 Dist2(cellPolygon(returned.cells[c])[k], sites[returned.cells[c].site])
                   <= Dist2(cellPolygon(returned.cells[c])[k], sites[j])

(* The voronoiIds a compute call left on its sites, and the polygons of the *)
(* diagram it returned.                                                     *)
IdsOf(rec) == [i \in 1..Len(rec.sites) |-> rec.sites[i].voronoiId]
PolygonsOf(rec) ==
  [c \in 1..Len(rec.diagram[1].cells) |-> cellPolygon(rec.diagram[1].cells[c])]

(* C9: two compute calls on the same instance with identical sites (same    *)
(* values, same order) and bbox, with or without a recycle in between,      *)
(* yield the same voronoiId assignment and the same cell polygons.          *)
C9_ComputeIsDeterministic ==
  (AfterCompute /\ prevCompute # Null) =>
     /\ ~prevCompute[1].raised
     /\ ~lastCompute[1].raised
     /\ IdsOf(prevCompute[1]) = IdsOf(lastCompute[1])
     /\ PolygonsOf(prevCompute[1]) = PolygonsOf(lastCompute[1])

(* A step in which recycle was called. *)
RecycleStep == nCalls' = nCalls + 1 /\ lastCall'.op = "recycle"
PoolUnchanged == UNCHANGED <<toRecycle, junkyards>>

(* C10, as claimed: recycle called with any value that is not a Diagram of  *)
(* this instance, null and undefined included, signals an error and leaves  *)
(* the pending-recycle mark and all junkyards unchanged.                    *)
C10_NonDiagramRaises ==
  [][(RecycleStep /\ ~instanceofDiagram(lastCall'.arg)) =>
        (lastCall'.raised /\ PoolUnchanged)]_vars

(* C10, amended: recycle called with a truthy value that is not a Diagram   *)
(* of this instance signals an error immediately, and called with null,     *)
(* undefined or another falsy value it returns silently; in both cases the  *)
(* pending-recycle mark and all junkyards are left unchanged.               *)
C10_TruthyNonDiagramRaises ==
  [][(RecycleStep /\ ~instanceofDiagram(lastCall'.arg)) =>
        /\ lastCall'.raised = Truthy(lastCall'.arg)
        /\ PoolUnchanged]_vars

(* C10's case: recycle has raised on a truthy non-diagram while a diagram   *)
(* was pending, and the mark is still there.                                *)
C10_Witness ==
  /\ lastCall.op = "recycle"
  /\ Truthy(lastCall.arg)
  /\ ~instanceofDiagram(lastCall.arg)
  /\ lastCall.raised
  /\ toRecycle # Null

-----------------------------------------------------------------------------
(* A step in which compute was called. *)
ComputeStep == nCalls' = nCalls + 1 /\ lastCall'.op = "compute"
(* Array a is what is left of array b after pops: nothing was put in. *)
IsPrefix(a, b) == Len(a) <= Len(b) /\ SubSeq(b, 1, Len(a)) = a

-----------------------------------------------------------------------------
(* What a Voronoi instance just constructed, its junkyards empty, does with *)
(* the points of the last compute call.                                     *)
freshCompute == compute(constructor, tdSites(lastCompute[1].pts), 0)
(* Two diagrams are equal: same cells with their halfedges in the same      *)
(* order, same edges with their end points, same vertices.                  *)
SameDiagram(d, e) ==
  d.cells = e.cells /\ d.edges = e.edges /\ d.vertices = e.vertices

(* C12: pooling cannot be observed: in every sequence of recycle and        *)
(* compute calls, every compute returns a diagram equal to the one a fresh  *)
(* instance with empty junkyards returns for the same sites and bbox.       *)
C12_PoolingIsIrrelevant ==
  AfterCompute =>
     /\ ~lastCall.raised
     /\ ~freshCompute.raised
     /\ SameDiagram(returned, freshCompute.diagram[1])
     /\ IdsOf(lastCompute[1]) = IdsOf(freshCompute)

-----------------------------------------------------------------------------
(* filterSimilarPoints(points, threshold).  Coordinates and thresholds are  *)
(* integers in grid units; indexes count from 1.                            *)
PolyPoint == [x : 0..MaxXY, y : 0..MaxXY]
Thresholds == 0..MaxXY

(* Math.abs *)
Abs(n) == IF n < 0 THEN -n ELSE n

(* A test that looks at the x axis only. *)
tooCloseInX(pt, nextPt, t) == Abs(pt.x - nextPt.x) < t

(* The test of lines 1649, 1656 and 1665. *)
tooClose(pt, nextPt, t) ==
  Abs(pt.x - nextPt.x) < t /\ Abs(pt.y - nextPt.y) < t

(* The set built by lines 1645-1658: every point too close to the one       *)
(* before it, and the last point when too close to the first.               *)
indexesTooCloseToPrevious(P, t) ==
  {i + 1 : i \in {k \in 1..(Len(P) - 1) : tooClose(P[k], P[k + 1], t)}}
    \cup (IF tooClose(P[1], P[Len(P)], t) THEN {Len(P)} ELSE {})

(* points.filter((pt, i) => !indexesTooCloseToPrevious.has(i)) *)
RECURSIVE filterFrom(_, _, _)
filterFrom(P, drop, i) ==
  IF i > Len(P) THEN <<>>
  ELSE (IF i \in drop THEN <<>> ELSE <<P[i]>>) \o filterFrom(P, drop, i + 1)

(* points[0] of an empty array, and filteredPts[0] of an empty array, are   *)
(* undefined, and reading .x of undefined raises a TypeError (lines 1656,   *)
(* 1665).                                                                   *)
filterSimilarPointsRaises(P, t) ==
  \/ Len(P) = 0
  \/ filterFrom(P, indexesTooCloseToPrevious(P, t), 1) = <<>>

filterSimilarPoints(P, t) ==
  LET filteredPts == filterFrom(P, indexesTooCloseToPrevious(P, t), 1)
  IN IF tooClose(filteredPts[1], filteredPts[Len(filteredPts)], t)
     THEN Pop(filteredPts)
     ELSE filteredPts

(* The caller adds a point to the polygon it has not filtered yet. *)
PushPoint(p) ==
  /\ filterResult = Null
  /\ Len(points) < MaxPoints
  /\ points' = Append(points, p)
  /\ UNCHANGED <<voronoiVars, feedVars, threshold, filterResult>>

(* The caller filters its polygon. *)
FilterSimilarPoints(t) ==
  /\ filterResult = Null
  /\ threshold' = t
  /\ filterResult' =
       IF filterSimilarPointsRaises(points, t)
       THEN <<[raised |-> TRUE, filteredPts |-> <<>>]>>
       ELSE <<[raised |-> FALSE, filteredPts |-> filterSimilarPoints(points, t)]>>
  /\ UNCHANGED <<voronoiVars, feedVars, points>>

NextFilter ==
  \/ \E p \in PolyPoint : PushPoint(p)
  \/ \E t \in Thresholds : FilterSimilarPoints(t)

SpecFilter == Init /\ [][NextFilter]_vars

-----------------------------------------------------------------------------
(* filterSimilarPoints has been called and has returned a value. *)
FilterReturned == filterResult # Null /\ ~filterResult[1].raised
(* Within t in both axes. *)
Within(a, b, t) ==
  /\ a.x - b.x < t /\ b.x - a.x < t
  /\ a.y - b.y < t /\ b.y - a.y < t
(* The input points that are neither within t of their immediate            *)
(* predecessor nor, for the last one, within t of the first.                *)
Remaining(P, t) ==
  LET keep(i) == /\ ~(i > 1 /\ Within(P[i - 1], P[i], t))
                 /\ ~(i = Len(P) /\ Within(P[1], P[i], t))
      kept == SelectSeq([i \in 1..Len(P) |-> i], keep)
  IN [k \in 1..Len(kept) |-> P[kept[k]]]
(* ... the last of them dropped once when still within t of the first. *)
Expected(P, t) ==
  LET r == Remaining(P, t)
  IN IF r # <<>> /\ Within(r[1], r[Len(r)], t)
     THEN SubSeq(r, 1, Len(r) - 1)
     ELSE r

-----------------------------------------------------------------------------
(* C14: closeCells completes, and after it every cell that was flagged      *)
(* closeMe and kept at least one halfedge has its halfedges in one closed   *)
(* walk (the end point of halfedge i is the start point of halfedge         *)
(* (i + 1) mod n, border halfedges included) and its closeMe flag reset.    *)
(* Every cell of a diagram of one or more sites touches the bbox, so every  *)
(* such cell has been flagged.                                              *)
C14_ClosedCellsAreClosedWalks ==
  (AfterCompute /\ Len(sites) >= 1) =>
     /\ ~lastCall.raised
     /\ \A c \in 1..Len(returned.cells) :
           returned.cells[c].halfedges # <<>> =>
              /\ Closed(returned.cells[c])
              /\ ~returned.cells[c].closeMe

-----------------------------------------------------------------------------
(* C16: for every finite list of sites the main loop of compute ends, every *)
(* iteration having consumed a site event or handled the first circle       *)
(* event, and control leaves the loop exactly when no site event and no     *)
(* circle event remains.                                                    *)
C16_MainLoopConsumesAllEvents ==
  AfterCompute =>
     /\ lastCompute[1].pending = 0
     /\ firstCircleEvent = Null

-----------------------------------------------------------------------------
-----------------------------------------------------------------------------
(* The frame feed of src/unnamed/part_000: the websocket handler            *)
(* handleMessageMap buffers each received frame under the next frame id,    *)
(* and the draw loop reads one frame per call of getVoronoiData.  The       *)
(* handler and the reader are callbacks of one event loop: each runs to its *)
(* end, in any order.                                                       *)

(* What a message carries, as far as the feed can tell two frames apart. *)
FrameData == {"a", "b"}

(* tdVoronoiData.frameId: getParamData('frameId'), 0 while nothing is live  *)
(* (lines 41, 53).                                                          *)
frameId(live) == IF live = Null THEN 0 ELSE live[1].frameId

(* A fast-forward that takes one step (an `if` for the `while`). *)
fastForwardOneStep(r, w) == IF w - r > lookbackSize THEN r + 1 ELSE r

(* The loop of lines 97-99. *)
RECURSIVE fastForward(_, _)
fastForward(r, w) == IF w - r > lookbackSize THEN fastForward(r + 1, w) ELSE r

(* Lines 91-100: the read index a call of getVoronoiData reads at. *)
nextReadFrameId(r, w, live) ==
  IF r = NoFrame THEN frameId(live) - lookbackSize ELSE fastForward(r, w)

(* A delete that leaves the entry in the map. *)
mapDeleteNothing(m, k) == m

(* Map.get, Map.set, Map.delete *)
mapGet(m, k) == IF k \in DOMAIN m THEN <<[frameId |-> k, data |-> m[k]]>> ELSE Null
mapSet(m, k, v) == [id \in DOMAIN m \cup {k} |-> IF id = k THEN v ELSE m[id]]
mapDelete(m, k) == [id \in DOMAIN m \ {k} |-> m[id]]

(* ws.onmessage -> handleMessageMap(message) *)
HandleMessageMap(data) ==
  /\ writeFrameId < MaxFrames
  /\ dataMap' = mapSet(dataMap, writeFrameId, data)
  /\ writeFrameId' = writeFrameId + 1
  /\ UNCHANGED <<voronoiVars, filterVars, readFrameId, lastData, liveData,
                 delivered, lastRead>>

(* getVoronoiData(); lastRead records the call: its number, whether it took *)
(* the initialising branch, and the read index it started from.             *)
GetVoronoiData ==
  /\ (IF lastRead = Null THEN 0 ELSE lastRead[1].n) < MaxReads
  /\ LET r == nextReadFrameId(readFrameId, writeFrameId, liveData)
         found == mapGet(dataMap, r)
     IN /\ readFrameId' = r
        /\ lastData' = found
        /\ liveData' = IF found # Null THEN found ELSE liveData
        /\ dataMap' = IF found # Null THEN mapDelete(dataMap, r) ELSE dataMap
        /\ delivered' = IF found # Null THEN Append(delivered, r) ELSE delivered
        /\ lastRead' = <<[n |-> IF lastRead = Null THEN 1 ELSE lastRead[1].n + 1,
                          init |-> readFrameId = NoFrame,
                          from |-> readFrameId]>>
  /\ UNCHANGED <<voronoiVars, filterVars, writeFrameId>>

NextFeed ==
  \/ \E data \in FrameData : HandleMessageMap(data)
  \/ GetVoronoiData

SpecFeed == Init /\ [][NextFeed]_vars

-----------------------------------------------------------------------------
(* A step in which getVoronoiData was called. *)
ReadStep == lastRead' # lastRead
(* ... and took the branch that (re)initialises the read index. *)
InitialisingRead == ReadStep /\ lastRead'[1].init

(* C24: after every read that does not (re)initialise the read index,       *)
(* writeFrameId - readFrameId <= lookbackSize; a reader that had fallen     *)
(* behind is fast-forwarded to exactly writeFrameId - lookbackSize          *)
(* (writeFrameId counts the received frames); and no read moves the read    *)
(* index ahead of writeFrameId - lookbackSize.                              *)
C24_ReaderKeepsUp ==
  [][/\ (ReadStep /\ ~InitialisingRead) =>
          /\ writeFrameId' - readFrameId' <= lookbackSize
          /\ writeFrameId - readFrameId > lookbackSize =>
                readFrameId' = writeFrameId - lookbackSize
     /\ (ReadStep /\ readFrameId' # readFrameId) =>
          readFrameId' <= writeFrameId - lookbackSize]_vars

(* C24's case: a reader that had fallen two or more frames behind has been  *)
(* fast-forwarded and has found the frame lookbackSize behind the write     *)
(* index.                                                                   *)
C24_Witness ==
  /\ lastRead # Null
  /\ ~lastRead[1].init
  /\ lastRead[1].from >= 0
  /\ readFrameId - lastRead[1].from >= 2
  /\ writeFrameId - readFrameId = lookbackSize
  /\ lastData # Null

-----------------------------------------------------------------------------
StrictlyIncreasing(q) == \A i, j \in 1..Len(q) : i < j => q[i] < q[j]

(* C26: a buffered frame is made live by getVoronoiData at most once (it is *)
(* deleted from dataMap when delivered), the frame ids made live over       *)
(* successive reads are strictly increasing, and a read that finds no frame *)
(* at the read index leaves the live data unchanged.                        *)
C26_FramesDeliveredOnceInOrder ==
  [][ReadStep =>
       /\ StrictlyIncreasing(delivered')
       /\ lastData' # Null =>
             /\ readFrameId' \notin DOMAIN dataMap'
             /\ liveData' = lastData'
       /\ lastData' = Null =>
             /\ liveData' = liveData
             /\ dataMap' = dataMap]_vars

(* C26's case: two frames have been made live, and a later read has found   *)
(* no frame at the read index although frames are buffered.                 *)
C26_Witness ==
  /\ Len(delivered) >= 2
  /\ lastRead # Null
  /\ lastData = Null
  /\ liveData # Null
  /\ DOMAIN dataMap # {}

-----------------------------------------------------------------------------
(* C27: the frame buffer holds no stale frames: after every getVoronoiData  *)
(* call dataMap holds no frame whose id is less than readFrameId (the       *)
(* frames the fast-forward skipped are discarded).                          *)
C27_NoStaleFrames ==
  [][ReadStep => \A id \in DOMAIN dataMap' : id >= readFrameId']_vars

(* C28: the read index is initialised exactly once: only the first          *)
(* getVoronoiData call takes the initialising branch (readFrameId == -1),   *)
(* and on every later call readFrameId does not decrease.                   *)
C28_InitialisedOnce ==
  [][ReadStep =>
       /\ InitialisingRead => lastRead = Null
       /\ lastRead # Null => readFrameId' >= readFrameId]_vars

-----------------------------------------------------------------------------
(* C30: filterSimilarPoints returns without raising for every polygon, the  *)
(* empty polygon and a single-point polygon included, and for every         *)
(* non-empty polygon it returns a non-empty polygon that still contains the *)
(* first input point.                                                       *)
C30_FilterNeverRaises ==
  filterResult # Null =>
     /\ ~filterResult[1].raised
     /\ points # <<>> =>
           /\ filterResult[1].filteredPts # <<>>
           /\ points[1] \in Range(filterResult[1].filteredPts)

====
